---- MODULE Spec2Model ----
(***************************************************************************)
(* tailwind.config.js: a CommonJS module whose body is the single          *)
(* statement                                                               *)
(*                                                                         *)
(*     module.exports = { content: [...], darkMode: 'class',               *)
(*                        theme: { extend: {} },                           *)
(*                        plugins: [ require('@tailwindcss/typography') ] } *)
(*                                                                         *)
(* The model follows the evaluation of that statement: the object literal  *)
(* is built property by property in source order, the only call in it is   *)
(* require(...), which either returns the resolved module's value or       *)
(* throws, and the assignment to module.exports happens last.  Several     *)
(* loads of the file (separate build-tool runs) evaluate it independently  *)
(* in one environment.                                                     *)
(*                                                                         *)
(* A JavaScript object is a function from its keys to its values, an array *)
(* is a sequence, {} is the function with the empty domain.                *)
(***************************************************************************)
EXTENDS Integers, Sequences, FiniteSets, TLC

\* Number of independent loads of the file.
NumLoads == 2
\* Number of distinct values '@tailwindcss/typography' may resolve to.
NumBuilds == 2

Loads == 1..NumLoads

\* The module name passed to require (line 12).
TypographyModule == "@tailwindcss/typography"

\* The value a loaded plugin module exports, opaque to the file: identified
\* by the module it came from and by which installed build it is.
PluginValue(name, build) == [module |-> name, build |-> build]

\* The ways require(...) throws: the module is not installed, or the
\* module's own top-level code throws.
RequireErrors == {"MODULE_NOT_FOUND", "PLUGIN_THREW"}

\* What require('@tailwindcss/typography') does in an environment.
Resolutions ==
  {[ok |-> TRUE, value |-> PluginValue(TypographyModule, b), error |-> "none"] :
      b \in 1..NumBuilds}
  \cup
  {[ok |-> FALSE, value |-> PluginValue(TypographyModule, 0), error |-> e] :
      e \in RequireErrors}

\* The object {}.
EmptyObject == [k \in {} |-> 0]

\* o with property k set to v, as an object literal adds it.
WithKey(o, k, v) == [x \in (DOMAIN o) \cup {k} |-> IF x = k THEN v ELSE o[x]]

VARIABLES
  typography,  \* the environment: what require of the typography module does
  pc,          \* pc[l]: how far load l has evaluated the statement
  obj,         \* obj[l]: the object literal as built so far
  exports,     \* exports[l]: module.exports of load l
  err,         \* err[l]: the error load l's evaluation aborted with
  required     \* required[l]: the module names load l passed to require

vars == <<typography, pc, obj, exports, err, required>>

\* A module starts with module.exports = {} and nothing evaluated.
Init ==
  /\ typography \in Resolutions
  /\ pc = [l \in Loads |-> "start"]
  /\ obj = [l \in Loads |-> EmptyObject]
  /\ exports = [l \in Loads |-> EmptyObject]
  /\ err = [l \in Loads |-> "none"]
  /\ required = [l \in Loads |-> <<>>]

\* Lines 3-6, with the two patterns swapped.
EvalContentSwapped(l) ==
  /\ pc[l] = "start"
  /\ obj' = [obj EXCEPT ![l] =
       WithKey(@, "content", <<"./style/**/*.{css,scss,sass}", "./src/**/*.rs">>)]
  /\ pc' = [pc EXCEPT ![l] = "content"]
  /\ UNCHANGED <<typography, exports, err, required>>

\* Lines 3-6, with html templates scanned as well.
EvalContentHtml(l) ==
  /\ pc[l] = "start"
  /\ obj' = [obj EXCEPT ![l] =
       WithKey(@, "content",
               <<"./src/**/*.rs", "./src/**/*.html", "./style/**/*.{css,scss,sass}">>)]
  /\ pc' = [pc EXCEPT ![l] = "content"]
  /\ UNCHANGED <<typography, exports, err, required>>

\* Lines 3-6: content: ["./src/**/*.rs", "./style/**/*.{css,scss,sass}"].
EvalContent(l) ==
  /\ pc[l] = "start"
  /\ obj' = [obj EXCEPT ![l] =
       WithKey(@, "content", <<"./src/**/*.rs", "./style/**/*.{css,scss,sass}">>)]
  /\ pc' = [pc EXCEPT ![l] = "content"]
  /\ UNCHANGED <<typography, exports, err, required>>

\* Line 7, with the strategy left to the default media query.
EvalDarkModeMedia(l) ==
  /\ pc[l] = "content"
  /\ obj' = [obj EXCEPT ![l] = WithKey(@, "darkMode", "media")]
  /\ pc' = [pc EXCEPT ![l] = "darkMode"]
  /\ UNCHANGED <<typography, exports, err, required>>

\* Line 7, with the strategy picked from something read at load time.
EvalDarkModeFromInput(l) ==
  /\ pc[l] = "content"
  /\ \E m \in {"class", "media"} :
       obj' = [obj EXCEPT ![l] = WithKey(@, "darkMode", m)]
  /\ pc' = [pc EXCEPT ![l] = "darkMode"]
  /\ UNCHANGED <<typography, exports, err, required>>

\* Line 7: darkMode: 'class'.
EvalDarkMode(l) ==
  /\ pc[l] = "content"
  /\ obj' = [obj EXCEPT ![l] = WithKey(@, "darkMode", "class")]
  /\ pc' = [pc EXCEPT ![l] = "darkMode"]
  /\ UNCHANGED <<typography, exports, err, required>>

\* Lines 8-10, with a colour added to the theme extension.
EvalThemeExtended(l) ==
  /\ pc[l] = "darkMode"
  /\ obj' = [obj EXCEPT ![l] =
       WithKey(@, "theme", [extend |-> [colors |-> [brand |-> "#0af"]]])]
  /\ pc' = [pc EXCEPT ![l] = "theme"]
  /\ UNCHANGED <<typography, exports, err, required>>

\* Lines 8-10 left out of the literal.
EvalThemeOmitted(l) ==
  /\ pc[l] = "darkMode"
  /\ pc' = [pc EXCEPT ![l] = "theme"]
  /\ UNCHANGED <<typography, obj, exports, err, required>>

\* Lines 8-10: theme: { extend: {} }.
EvalTheme(l) ==
  /\ pc[l] = "darkMode"
  /\ obj' = [obj EXCEPT ![l] = WithKey(@, "theme", [extend |-> EmptyObject])]
  /\ pc' = [pc EXCEPT ![l] = "theme"]
  /\ UNCHANGED <<typography, exports, err, required>>

\* Lines 11-13, with a second plugin required after the first.
EvalPluginsTwo(l) ==
  /\ pc[l] = "theme"
  /\ IF typography.ok
       THEN /\ required' = [required EXCEPT ![l] =
                 @ \o <<TypographyModule, "@tailwindcss/forms">>]
            /\ obj' = [obj EXCEPT ![l] =
                 WithKey(@, "plugins",
                         <<typography.value, PluginValue("@tailwindcss/forms", 1)>>)]
            /\ pc' = [pc EXCEPT ![l] = "plugins"]
            /\ UNCHANGED <<exports, err>>
       ELSE /\ required' = [required EXCEPT ![l] = Append(@, TypographyModule)]
            /\ err' = [err EXCEPT ![l] = typography.error]
            /\ pc' = [pc EXCEPT ![l] = "threw"]
            /\ UNCHANGED <<obj, exports>>
  /\ UNCHANGED typography

\* Lines 11-13, with a failing require caught and what was built so far
\* exported without plugins.
EvalPluginsCaught(l) ==
  /\ pc[l] = "theme"
  /\ required' = [required EXCEPT ![l] = Append(@, TypographyModule)]
  /\ IF typography.ok
       THEN /\ obj' = [obj EXCEPT ![l] = WithKey(@, "plugins", <<typography.value>>)]
            /\ pc' = [pc EXCEPT ![l] = "plugins"]
            /\ UNCHANGED <<exports, err>>
       ELSE /\ err' = [err EXCEPT ![l] = typography.error]
            /\ exports' = [exports EXCEPT ![l] = obj[l]]
            /\ pc' = [pc EXCEPT ![l] = "threw"]
            /\ UNCHANGED obj
  /\ UNCHANGED typography

\* Lines 11-13: plugins: [require('@tailwindcss/typography')].  The call
\* either returns the resolved module's value, which becomes the array's one
\* element, or throws: the throw leaves the statement, so the literal is
\* never finished and module.exports is never assigned.
EvalPlugins(l) ==
  /\ pc[l] = "theme"
  /\ required' = [required EXCEPT ![l] = Append(@, TypographyModule)]
  /\ IF typography.ok
       THEN /\ obj' = [obj EXCEPT ![l] = WithKey(@, "plugins", <<typography.value>>)]
            /\ pc' = [pc EXCEPT ![l] = "plugins"]
            /\ UNCHANGED <<exports, err>>
       ELSE /\ err' = [err EXCEPT ![l] = typography.error]
            /\ pc' = [pc EXCEPT ![l] = "threw"]
            /\ UNCHANGED <<obj, exports>>
  /\ UNCHANGED typography

\* Lines 2-14, followed by a statement that rewrites a field of the export.
AssignExportsThenPatch(l) ==
  \/ /\ pc[l] = "plugins"
     /\ exports' = [exports EXCEPT ![l] = obj[l]]
     /\ pc' = [pc EXCEPT ![l] = "done"]
     /\ UNCHANGED <<typography, obj, err, required>>
  \/ /\ pc[l] = "done"
     /\ exports[l].darkMode = "class"
     /\ exports' = [exports EXCEPT ![l] = WithKey(@, "darkMode", "media")]
     /\ UNCHANGED <<typography, pc, obj, err, required>>

\* Lines 2-14: module.exports = <the finished literal>; the module's last
\* step.
AssignExports(l) ==
  /\ pc[l] = "plugins"
  /\ exports' = [exports EXCEPT ![l] = obj[l]]
  /\ pc' = [pc EXCEPT ![l] = "done"]
  /\ UNCHANGED <<typography, obj, err, required>>

Next ==
  \E l \in Loads :
    \/ EvalContent(l)
    \/ EvalDarkMode(l)
    \/ EvalTheme(l)
    \/ EvalPlugins(l)
    \/ AssignExports(l)

Spec == Init /\ [][Next]_vars

\* The other copy of the file the specification describes: the same literal
\* without the darkMode key, loaded in an environment where the typography
\* module resolves to plugin.
VariantConfig(plugin) ==
  [content |-> <<"./src/**/*.rs", "./style/**/*.{css,scss,sass}">>,
   theme   |-> [extend |-> EmptyObject],
   plugins |-> <<plugin>>]

\* o with property k removed.
WithoutKey(o, k) == [x \in (DOMAIN o) \ {k} |-> o[x]]

----------------------------------------------------------------------------
\* C1: the export of a loaded module is one object whose top-level keys are
\* exactly content, darkMode, theme and plugins: none missing, none extra.
ExportKeysExact ==
  \A l \in Loads :
    pc[l] = "done" =>
      DOMAIN exports[l] = {"content", "darkMode", "theme", "plugins"}

\* A load has finished and exported an object with keys.
ExportKeysWitness ==
  \E l \in Loads : pc[l] = "done" /\ Cardinality(DOMAIN exports[l]) = 4

\* C2: the exported content is the list of exactly the two glob patterns
\* "./src/**/*.rs" and "./style/**/*.{css,scss,sass}", in that order.
ContentIsTwoGlobs ==
  \A l \in Loads :
    pc[l] = "done" =>
      /\ Len(exports[l].content) = 2
      /\ exports[l].content[1] = "./src/**/*.rs"
      /\ exports[l].content[2] = "./style/**/*.{css,scss,sass}"

\* A load has finished and its export carries a content list.
ContentWitness ==
  \E l \in Loads :
    pc[l] = "done" /\ "content" \in DOMAIN exports[l] /\ exports[l].content # <<>>

\* C3: the exported configuration has a darkMode key and its value is the
\* string 'class'.
DarkModeIsClass ==
  \A l \in Loads :
    pc[l] = "done" =>
      "darkMode" \in DOMAIN exports[l] /\ exports[l].darkMode = "class"

\* A load has finished and its export carries a darkMode key.
DarkModeWitness ==
  \E l \in Loads : pc[l] = "done" /\ "darkMode" \in DOMAIN exports[l]

\* C4: the exported plugins list has exactly one element, the value that
\* loading '@tailwindcss/typography' returned, and that module is the only
\* one the load required.
PluginsIsTypographyOnly ==
  \A l \in Loads :
    pc[l] = "done" =>
      /\ exports[l].plugins = <<typography.value>>
      /\ typography.value.module = TypographyModule
      /\ required[l] = <<TypographyModule>>

\* A load has finished after a successful require, in the environment with
\* the second build of the plugin installed.
PluginsWitness ==
  \E l \in Loads :
    /\ pc[l] = "done"
    /\ typography.ok /\ typography.value.build = NumBuilds
    /\ Len(exports[l].plugins) = 1

\* C5: the exported theme has exactly one key, extend, and extend is the
\* empty object.
ThemeExtendsNothing ==
  \A l \in Loads :
    pc[l] = "done" =>
      /\ DOMAIN exports[l].theme = {"extend"}
      /\ DOMAIN exports[l].theme.extend = {}
      /\ exports[l].theme.extend = EmptyObject

\* A load has finished and its export carries a theme.
ThemeWitness ==
  \E l \in Loads : pc[l] = "done" /\ "theme" \in DOMAIN exports[l]

\* C6: once a module is loaded, no step of the program changes its exported
\* object or takes the load anywhere else: content, darkMode, theme and
\* plugins stay as exported in every behaviour.
ExportFrozen ==
  [][\A l \in Loads :
       pc[l] = "done" => (pc'[l] = "done" /\ exports'[l] = exports[l])]_vars

\* One load has finished while another is still evaluating the literal, so
\* steps of the program follow the export.
ExportFrozenWitness ==
  \E l, m \in Loads :
    /\ pc[l] = "done" /\ exports[l] # EmptyObject
    /\ pc[m] \in {"content", "darkMode", "theme"}

FailedRequireExportsNothing ==
  \A l \in Loads :
    /\ exports[l] # EmptyObject =>
         typography.ok /\ required[l] = <<TypographyModule>>
    /\ ~typography.ok /\ required[l] # <<>> =>
         /\ pc[l] = "threw"
         /\ err[l] = typography.error
         /\ exports[l] = EmptyObject
    /\ pc[l] = "threw" => ~typography.ok /\ err[l] \in RequireErrors

\* A load's require has failed because the plugin's own code threw.
FailedRequireWitness ==
  \E l \in Loads :
    pc[l] = "threw" /\ err[l] = "PLUGIN_THREW" /\ required[l] = <<TypographyModule>>

\* C9: two loads of the module in the same environment export configurations
\* that are equal field by field.
LoadsAgree ==
  \A l, m \in Loads :
    pc[l] = "done" /\ pc[m] = "done" =>
      /\ DOMAIN exports[l] = DOMAIN exports[m]
      /\ \A k \in DOMAIN exports[l] : exports[l][k] = exports[m][k]

\* Two different loads have both finished.
LoadsAgreeWitness ==
  \E l, m \in Loads : l # m /\ pc[l] = "done" /\ pc[m] = "done"

====
